---- MODULE Spec2Model ----
(***************************************************************************)
(* A model of the dopen desktop-entry library: the Exec interpreter        *)
(* (src/desktop/execute.rs), the document model (src/desktop/model.rs),    *)
(* the value codec (src/desktop/entries.rs) and the entry grammar parser   *)
(* (src/desktop/parser.rs).                                                *)
(*                                                                         *)
(* A Rust String is modelled as a sequence of characters, each character a *)
(* one-character TLA+ string.  A byte buffer is a sequence of bytes: an    *)
(* ASCII byte is written as its character, a byte above 0x7F as "<XX>".    *)
(***************************************************************************)
EXTENDS Integers, Sequences, FiniteSets, TLC

\* ------------------------------------------------------------------------
\* Bounds of the model
\* ------------------------------------------------------------------------

\* longest command drawn over the tokenizer's alphabet
MaxLen == 5
\* most field codes and plain characters one drawn argument is made of
MaxAtoms == 2
\* most words of a command built from whole field-code tokens
MaxWords == 3
\* most lines of a byte buffer built from whole lines
MaxLines == 3
\* longest value of a byte buffer with one entry
MaxValueLen == 3

\* longest Exec value of a launched entry
MaxExecLen == 3
\* longest string given to the value codec
MaxTextLen == 4

\* ------------------------------------------------------------------------
\* Strings
\* ------------------------------------------------------------------------

RECURSIVE Flatten(_)
\* concatenation of a sequence of sequences
Flatten(ss) == IF ss = <<>> THEN <<>> ELSE Head(ss) \o Flatten(Tail(ss))

\* all sequences over S of length at most n
SeqsUpTo(S, n) == UNION { [1..k -> S] : k \in 0..n }

UpperLetters == <<"A","B","C","D","E","F","G","H","I","J","K","L","M",
                  "N","O","P","Q","R","S","T","U","V","W","X","Y","Z">>
LowerLetters == <<"a","b","c","d","e","f","g","h","i","j","k","l","m",
                  "n","o","p","q","r","s","t","u","v","w","x","y","z">>

\* u8::to_ascii_lowercase / char::to_ascii_lowercase
AsciiLowerChar(c) ==
    IF \E i \in 1..26 : UpperLetters[i] = c
    THEN LowerLetters[CHOOSE i \in 1..26 : UpperLetters[i] = c]
    ELSE c

\* str::to_ascii_lowercase, str::make_ascii_lowercase
to_ascii_lowercase(s) == [i \in 1..Len(s) |-> AsciiLowerChar(s[i])]

\* Option<T>
None == [some |-> FALSE, val |-> <<>>]
Some(v) == [some |-> TRUE, val |-> v]

\* ------------------------------------------------------------------------
\* Value codec (entries.rs, mod util)
\* ------------------------------------------------------------------------

RECURSIVE unescape_value_drops(_)
\* an unescape that drops the backslash before a character it does not know
unescape_value_drops(s) ==
    IF s = <<>> THEN <<>>
    ELSE IF Head(s) = "\\"
         THEN IF Len(s) = 1 THEN <<"\\">>
              ELSE LET e == s[2]
                       r == SubSeq(s, 3, Len(s))
                   IN  CASE e = "s"  -> <<" ">>  \o unescape_value_drops(r)
                         [] e = "n"  -> <<"\n">> \o unescape_value_drops(r)
                         [] e = "t"  -> <<"\t">> \o unescape_value_drops(r)
                         [] e = "r"  -> <<"\r">> \o unescape_value_drops(r)
                         [] e = "\\" -> <<"\\">> \o unescape_value_drops(r)
                         [] OTHER    -> <<e>> \o unescape_value_drops(r)
         ELSE <<Head(s)>> \o unescape_value_drops(Tail(s))

RECURSIVE unescape_value(_)
\* util::unescape_value: the loop over s.chars()
unescape_value(s) ==
    IF s = <<>> THEN <<>>
    ELSE IF Head(s) = "\\"
         THEN IF Len(s) = 1 THEN <<"\\">>
              ELSE LET e == s[2]
                       r == SubSeq(s, 3, Len(s))
                   IN  CASE e = "s"  -> <<" ">>  \o unescape_value(r)
                         [] e = "n"  -> <<"\n">> \o unescape_value(r)
                         [] e = "t"  -> <<"\t">> \o unescape_value(r)
                         [] e = "r"  -> <<"\r">> \o unescape_value(r)
                         [] e = "\\" -> <<"\\">> \o unescape_value(r)
                         [] OTHER    -> <<"\\", e>> \o unescape_value(r)
         ELSE <<Head(s)>> \o unescape_value(Tail(s))

\* what the backslash arm of Values::next pushes for the character after it
ValuesEscape(e) ==
    CASE e = "\\" -> <<"\\">>
      [] e = ";"  -> <<";">>
      [] e = "s"  -> <<" ">>
      [] e = "n"  -> <<"\n">>
      [] e = "t"  -> <<"\t">>
      [] e = "r"  -> <<"\r">>
      [] OTHER    -> <<"\\", e>>

RECURSIVE values_scan_plain(_, _)
\* a scan whose ';' arm comes first: every ';' ends the value
values_scan_plain(chars, value) ==
    IF chars = <<>> THEN [value |-> value, rest |-> <<>>]
    ELSE IF Head(chars) = ";" THEN [value |-> value, rest |-> Tail(chars)]
    ELSE IF Head(chars) = "\\"
         THEN values_scan_plain(Tail(chars), value \o <<"\\">>)
    ELSE values_scan_plain(Tail(chars), value \o <<Head(chars)>>)

RECURSIVE values_scan(_, _)
\* Values::next, `while let Some(c) = self.inner.next()`: the value returned
\* and what is left of inner
values_scan(chars, value) ==
    IF chars = <<>> THEN [value |-> value, rest |-> <<>>]
    ELSE IF Head(chars) = "\\"
         THEN IF Len(chars) = 1
              THEN values_scan(<<>>, value \o <<"\\">>)
              ELSE values_scan(SubSeq(chars, 3, Len(chars)),
                               value \o ValuesEscape(chars[2]))
    ELSE IF Head(chars) = ";" THEN [value |-> value, rest |-> Tail(chars)]
    ELSE values_scan(Tail(chars), value \o <<Head(chars)>>)

\* ------------------------------------------------------------------------
\* Document model (model.rs)
\* ------------------------------------------------------------------------

DESKTOP_ENTRY_NAME == <<"D","e","s","k","t","o","p"," ","E","n","t","r","y">>

\* Group::new: values is a HashMap<String, String>, a function on its keys
Group(name, values) == [name |-> name, values |-> values]

\* Group::get_raw
get_raw(g, name) ==
    IF to_ascii_lowercase(name) \in DOMAIN g.values
    THEN Some(g.values[to_ascii_lowercase(name)])
    ELSE None

\* DesktopEntry::group: the first group of that name
group_by_name(doc, name) ==
    IF \E i \in 1..Len(doc) : doc[i].name = name
    THEN Some(doc[CHOOSE i \in 1..Len(doc) :
                    /\ doc[i].name = name
                    /\ \A j \in 1..(i-1) : doc[j].name # name])
    ELSE None

\* DesktopEntry::main_group
main_group(doc) == group_by_name(doc, DESKTOP_ENTRY_NAME)

\* a get that hands out the raw value
group_get_string_raw(g, field) == get_raw(g, field)

\* Group::get::<T>() for an entry_type!(T(String)): the raw value, unescaped
group_get_string(g, field) ==
    IF get_raw(g, field).some
    THEN Some(unescape_value(get_raw(g, field).val))
    ELSE None

\* DesktopEntry::get::<T>() for a String entry: main_group().and_then(Group::get)
entry_get_string(doc, field) ==
    IF main_group(doc).some
    THEN group_get_string(main_group(doc).val, field)
    ELSE None

\* Entry::name() of Icon and Name: stringify!($name)
IconField == <<"I","c","o","n">>
NameField == <<"N","a","m","e">>
ExecField == <<"E","x","e","c">>

\* ------------------------------------------------------------------------
\* Exec interpreter (execute.rs)
\* ------------------------------------------------------------------------

\* Result<String, Error> items of CommandWords, and parse_command's result
OkWord(w) == [err |-> "none", val |-> w]
ErrWord(e) == [err |-> e, val |-> <<>>]

\* replace_append with the Icon and Name arms exchanged
replace_append_swapped(cap, ctx) ==
    CASE cap \in {<<"%","f">>, <<"%","u">>} ->
             IF ctx.args # <<>> THEN Head(ctx.args) ELSE <<>>
      [] cap = <<"%","c">> ->
             IF entry_get_string(ctx.source, IconField).some
             THEN entry_get_string(ctx.source, IconField).val ELSE <<>>
      [] cap = <<"%","i">> ->
             IF entry_get_string(ctx.source, NameField).some
             THEN entry_get_string(ctx.source, NameField).val ELSE <<>>
      [] cap = <<"%","k">> ->
             IF ctx.source_path.some THEN ctx.source_path.val ELSE <<>>
      [] cap = <<"%","%">> -> <<"%">>
      [] OTHER -> <<>>

\* replace_append pushing an unrecognized flag back as it is
replace_append_keeps(cap, ctx) ==
    CASE cap \in {<<"%","f">>, <<"%","u">>} ->
             IF ctx.args # <<>> THEN Head(ctx.args) ELSE <<>>
      [] cap = <<"%","i">> ->
             IF entry_get_string(ctx.source, IconField).some
             THEN entry_get_string(ctx.source, IconField).val ELSE <<>>
      [] cap = <<"%","c">> ->
             IF entry_get_string(ctx.source, NameField).some
             THEN entry_get_string(ctx.source, NameField).val ELSE <<>>
      [] cap = <<"%","k">> ->
             IF ctx.source_path.some THEN ctx.source_path.val ELSE <<>>
      [] cap = <<"%","%">> -> <<"%">>
      [] OTHER -> cap

\* the text a match of FLAG_RE is replaced by: what replace_append pushes to dst
replace_append(cap, ctx) ==
    CASE cap \in {<<"%","f">>, <<"%","u">>} ->
             IF ctx.args # <<>> THEN Head(ctx.args) ELSE <<>>
      [] cap = <<"%","i">> ->
             IF entry_get_string(ctx.source, IconField).some
             THEN entry_get_string(ctx.source, IconField).val ELSE <<>>
      [] cap = <<"%","c">> ->
             IF entry_get_string(ctx.source, NameField).some
             THEN entry_get_string(ctx.source, NameField).val ELSE <<>>
      [] cap = <<"%","k">> ->
             IF ctx.source_path.some THEN ctx.source_path.val ELSE <<>>
      [] cap = <<"%","%">> -> <<"%">>
      [] OTHER -> <<>>

\* FLAG_RE = "%.": '.' is any character but a line feed
FlagMatchesAt(s) == Len(s) >= 2 /\ s[1] = "%" /\ s[2] # "\n"

RECURSIVE replace_all_overlapping(_, _)
\* replace_all resuming one character, not two, after a match
replace_all_overlapping(s, ctx) ==
    IF s = <<>> THEN <<>>
    ELSE IF FlagMatchesAt(s)
         THEN replace_append(SubSeq(s, 1, 2), ctx)
                  \o replace_all_overlapping(Tail(s), ctx)
         ELSE <<Head(s)>> \o replace_all_overlapping(Tail(s), ctx)

RECURSIVE replace_all(_, _)
\* FLAG_RE.replace_all(&arg, ReplaceFlags(context)): leftmost, non-overlapping
replace_all(s, ctx) ==
    IF s = <<>> THEN <<>>
    ELSE IF FlagMatchesAt(s)
         THEN replace_append(SubSeq(s, 1, 2), ctx)
                  \o replace_all(SubSeq(s, 3, Len(s)), ctx)
         ELSE <<Head(s)>> \o replace_all(Tail(s), ctx)

\* the test for "%F" alone
IsFileArg_onlyF(arg) == arg = <<"%","F">>

\* arg == "%F" || arg == "%U"
IsFileArg(arg) == arg = <<"%","F">> \/ arg = <<"%","U">>

\* ------------------------------------------------------------------------
\* Bytes and UTF-8 (str::from_utf8)
\* ------------------------------------------------------------------------

\* the bytes 32..126 (byte 0x60, the grave accent, is written "<60>")
PrintableAscii ==
    { " ", "!", "\"", "#", "$", "%", "&", "'", "(", ")", "*", "+",
      ",", "-", ".", "/", "0", "1", "2", "3", "4", "5", "6", "7",
      "8", "9", ":", ";", "<", "=", ">", "?", "@", "A", "B", "C",
      "D", "E", "F", "G", "H", "I", "J", "K", "L", "M", "N", "O",
      "P", "Q", "R", "S", "T", "U", "V", "W", "X", "Y", "Z", "[",
      "\\", "]", "^", "_", "<60>", "a", "b", "c", "d", "e", "f", "g",
      "h", "i", "j", "k", "l", "m", "n", "o", "p", "q", "r", "s",
      "t", "u", "v", "w", "x", "y", "z", "{", "|", "}", "~" }

\* the bytes below 0x80 the model draws
AsciiBytes == PrintableAscii \cup {"\t", "\n", "\r"}
\* the bytes from 0x80 on the model draws: the lead byte and the continuation
\* byte of a two-byte sequence, and a byte no UTF-8 text holds
Lead2Bytes == {"<C3>"}
ContBytes == {"<A9>"}

\* the character a two-byte sequence encodes
Decode2(lead, cont) == "<U+E9>"

\* how many bytes the UTF-8 sequence at the head of b takes, 0 when b starts
\* with none
Utf8SeqLen(b) ==
    IF b = <<>> THEN 0
    ELSE IF b[1] \in AsciiBytes THEN 1
    ELSE IF b[1] \in Lead2Bytes /\ Len(b) >= 2 /\ b[2] \in ContBytes THEN 2
    ELSE 0

RECURSIVE Utf8Valid(_)
\* str::from_utf8(b).is_ok()
Utf8Valid(b) ==
    \/ b = <<>>
    \/ /\ Utf8SeqLen(b) > 0
       /\ Utf8Valid(SubSeq(b, Utf8SeqLen(b) + 1, Len(b)))

RECURSIVE Utf8Decode(_)
\* the str of a valid byte slice, character by character
Utf8Decode(b) ==
    IF b = <<>> THEN <<>>
    ELSE IF Utf8SeqLen(b) = 2
         THEN <<Decode2(b[1], b[2])>> \o Utf8Decode(SubSeq(b, 3, Len(b)))
         ELSE <<b[1]>> \o Utf8Decode(Tail(b))

\* ------------------------------------------------------------------------
\* Entry grammar parser (parser.rs), combinator by combinator
\* ------------------------------------------------------------------------

\* nom::IResult: Ok((rest, out)), Err(Err::Error(e)), Err(Err::Failure(e))
POk(rest, out) == [kind |-> "Ok", rest |-> rest, out |-> out, err |-> "none"]
PError(e) == [kind |-> "Error", rest |-> <<>>, out |-> <<>>, err |-> e]
PFailure(e) == [kind |-> "Failure", rest |-> <<>>, out |-> <<>>, err |-> e]

RECURSIVE RunIn(_, _)
\* how many leading bytes of i are in S
RunIn(i, S) == IF i = <<>> \/ Head(i) \notin S THEN 0 ELSE 1 + RunIn(Tail(i), S)

RECURSIVE RunUntil(_, _)
\* how many leading bytes of i are not c
RunUntil(i, c) == IF i = <<>> \/ Head(i) = c THEN 0 ELSE 1 + RunUntil(Tail(i), c)

Drop(i, n) == SubSeq(i, n + 1, Len(i))

\* x bound to the value of v in F(x): v is computed once
Bind(v, F(_)) == CHOOSE y \in { F(x) : x \in {v} } : TRUE

\* nom char(c)
char(c, i) == IF i # <<>> /\ Head(i) = c THEN POk(Tail(i), c) ELSE PError("Syntax")

\* nom space0: spaces and tabs
space0(i) == POk(Drop(i, RunIn(i, {" ", "\t"})), <<>>)

\* is_header_char
is_header_char(c) == c \in PrintableAscii /\ c # "[" /\ c # "]"

\* blanks' empty_line: terminated(space0, char('\n'))
empty_line(i) == char("\n", space0(i).rest)

\* comment: delimited(char('#'), take_while(|c| c != b'\n'), endline)
comment(i) ==
    IF char("#", i).kind # "Ok" THEN PError("Syntax")
    ELSE Bind(RunUntil(Tail(i), "\n"), LAMBDA n :
            POk(Drop(i, n + 2), SubSeq(i, 2, n + 1)))

RECURSIVE blanks(_)
\* blanks: fold_many0(empty_line.or(comment), ..)
blanks(i) ==
    Bind(IF empty_line(i).kind = "Ok" THEN empty_line(i) ELSE comment(i),
         LAMBDA r :
            IF r.kind = "Error" THEN POk(i, <<>>)
            ELSE IF Len(r.rest) = Len(i) THEN PError("Syntax")
            ELSE blanks(r.rest))

\* the classes of KEY_RE
Digits == {"0","1","2","3","4","5","6","7","8","9"}
Uppers == { UpperLetters[n] : n \in 1..26 }
Lowers == { LowerLetters[n] : n \in 1..26 }
KeyChars == Uppers \cup Lowers \cup Digits \cup {"-"}
ModifierChars == Uppers \cup Lowers \cup {"0", "9", "-"}

\* the end (the position after it) of `\]` at p, if it matches
EndsBracket(i, p) == IF p <= Len(i) /\ i[p] = "]" THEN <<p + 1>> ELSE <<>>

RECURSIVE ModifierRun(_, _, _)
\* the ends, longest run first, of `[A-Za-z09-]+\]` at p, the run at most n
ModifierRun(i, p, n) ==
    IF n = 0 THEN <<>> ELSE EndsBracket(i, p + n) \o ModifierRun(i, p, n - 1)

\* the ends, best first, of `(@[A-Za-z09-]+)?\]` at p
EndsModifier(i, p) ==
    (IF p <= Len(i) /\ i[p] = "@"
     THEN ModifierRun(i, p + 1, RunIn(Drop(i, p), ModifierChars))
     ELSE <<>>)
    \o EndsBracket(i, p)

RECURSIVE EncodingRun(_, _, _)
\* the ends, longest run first, of `[A-Za-z0-9-]+(@..)?\]` at p
EncodingRun(i, p, n) ==
    IF n = 0 THEN <<>> ELSE EndsModifier(i, p + n) \o EncodingRun(i, p, n - 1)

\* how many bytes the `.` of KEY_RE takes at p: one character, no line feed
DotLen(i, p) ==
    IF p <= Len(i) /\ i[p] # "\n" THEN Utf8SeqLen(Drop(i, p - 1)) ELSE 0

\* the ends, best first, of `(.[A-Za-z0-9-]+)?(@..)?\]` at p
EndsEncoding(i, p) ==
    (IF DotLen(i, p) > 0
     THEN EncodingRun(i, p + DotLen(i, p),
                      RunIn(Drop(i, p + DotLen(i, p) - 1), KeyChars))
     ELSE <<>>)
    \o EndsModifier(i, p)

\* the ends, best first, of `(_[A-Z]{2})?(.…)?(@…)?\]` at p
EndsCountry(i, p) ==
    (IF p + 2 <= Len(i) /\ i[p] = "_" /\ i[p+1] \in Uppers /\ i[p+2] \in Uppers
     THEN EndsEncoding(i, p + 3) ELSE <<>>)
    \o EndsEncoding(i, p)

\* the ends, best first, of the locale suffix `\[[a-z]{2}…\]` at p
EndsLocale(i, p) ==
    IF p + 2 <= Len(i) /\ i[p] = "[" /\ i[p+1] \in Lowers /\ i[p+2] \in Lowers
    THEN EndsCountry(i, p + 3) ELSE <<>>

\* the length of the match of KEY_RE at the start of i, 0 when there is none
KeyMatchLen(i) ==
    Bind(RunIn(i, KeyChars), LAMBDA n :
        IF n = 0 THEN 0
        ELSE Bind(EndsLocale(i, n + 1), LAMBDA ends :
                IF ends # <<>> THEN ends[1] - 1 ELSE n))

\* entry_key: re_find(KEY_RE), the match lower-cased
entry_key(i) ==
    Bind(KeyMatchLen(i), LAMBDA n :
        IF n = 0 THEN PError("Syntax")
        ELSE POk(Drop(i, n), to_ascii_lowercase(Utf8Decode(SubSeq(i, 1, n)))))

\* entry_value giving up with Err::Error, which a repetition takes as its end
entry_value_error(i) ==
    Bind(RunUntil(i, "\n"), LAMBDA n :
        IF Utf8Valid(SubSeq(i, 1, n))
        THEN POk(IF n < Len(i) THEN Drop(i, n + 1) ELSE <<>>,
                 Utf8Decode(SubSeq(i, 1, n)))
        ELSE PError("NonUtf8"))

\* entry_value: the line up to '\n', which is dropped, as a str
entry_value(i) ==
    Bind(RunUntil(i, "\n"), LAMBDA n :
        IF Utf8Valid(SubSeq(i, 1, n))
        THEN POk(IF n < Len(i) THEN Drop(i, n + 1) ELSE <<>>,
                 Utf8Decode(SubSeq(i, 1, n)))
        ELSE PFailure("NonUtf8"))

\* the '=' taken without the space0 after it
equals_sign_only(i) ==
    Bind(char("=", space0(i).rest), LAMBDA r :
        IF r.kind = "Ok" THEN POk(r.rest, "=") ELSE r)

\* entry's delimited(space0, char('='), space0)
equals_sign(i) ==
    Bind(char("=", space0(i).rest), LAMBDA r :
        IF r.kind = "Ok" THEN POk(space0(r.rest).rest, "=") ELSE r)

\* entry: separated_pair(preceded(blanks, entry_key), .., entry_value)
entry(i) ==
    Bind(blanks(i), LAMBDA b :
      IF b.kind # "Ok" THEN b ELSE
      Bind(entry_key(b.rest), LAMBDA k :
        IF k.kind # "Ok" THEN k ELSE
        Bind(equals_sign(k.rest), LAMBDA e :
          IF e.kind # "Ok" THEN e ELSE
          Bind(entry_value(e.rest), LAMBDA v :
            IF v.kind # "Ok" THEN v ELSE POk(v.rest, <<k.out, v.out>>)))))

\* an insert that keeps the value a key already has
MapInsert_keepFirst(acc, k, v) ==
    [x \in (DOMAIN acc) \cup {k} |-> IF x \in DOMAIN acc THEN acc[x] ELSE v]

\* HashMap::insert
MapInsert(acc, k, v) ==
    [x \in (DOMAIN acc) \cup {k} |-> IF x = k THEN v ELSE acc[x]]

RECURSIVE key_value_fold(_, _)
\* key_value_list's fold_many0(entry, HashMap::new, insert), acc so far
key_value_fold(i, acc) ==
    Bind(entry(i), LAMBDA r :
        IF r.kind = "Error" THEN POk(i, acc)
        ELSE IF r.kind = "Failure" THEN r
        ELSE IF Len(r.rest) = Len(i) THEN PError("Syntax")
        ELSE Bind(MapInsert(acc, r.out[1], r.out[2]), LAMBDA m :
                key_value_fold(r.rest, m)))

\* key_value_list
key_value_list(i) == key_value_fold(i, <<>>)

\* group's header: delimited(char('['), take_while(is_header_char), char(']')),
\* through map_res(.., str::from_utf8)
header(i) ==
    IF char("[", i).kind # "Ok" THEN PError("Syntax")
    ELSE Bind(RunIn(Tail(i), { c \in PrintableAscii : is_header_char(c) }),
              LAMBDA n :
           Bind(char("]", Drop(i, n + 1)), LAMBDA close :
             IF close.kind # "Ok" THEN close
             ELSE IF ~Utf8Valid(SubSeq(i, 2, n + 1)) THEN PError("NonUtf8")
             ELSE POk(close.rest, Utf8Decode(SubSeq(i, 2, n + 1)))))

\* group
group(i) ==
    Bind(header(i), LAMBDA h :
      IF h.kind # "Ok" THEN h ELSE
      Bind(char("\n", h.rest), LAMBDA nl :
        IF nl.kind # "Ok" THEN nl ELSE
        Bind(key_value_list(nl.rest), LAMBDA kv :
          IF kv.kind # "Ok" THEN kv ELSE
          Bind(blanks(kv.rest), LAMBDA b :
            IF b.kind # "Ok" THEN b ELSE POk(b.rest, Group(h.out, kv.out))))))

RECURSIVE many0_group(_, _)
\* desktop_entry's many0(group), acc the groups so far
many0_group(i, acc) ==
    Bind(group(i), LAMBDA r :
        IF r.kind = "Error" THEN POk(i, acc)
        ELSE IF r.kind = "Failure" THEN r
        ELSE IF Len(r.rest) = Len(i) THEN PError("Syntax")
        ELSE Bind(Append(acc, r.out), LAMBDA gs : many0_group(r.rest, gs)))

\* desktop_entry: preceded(blanks, map(many0(group), DesktopEntry::new))
desktop_entry(i) ==
    Bind(blanks(i), LAMBDA b :
        IF b.kind # "Ok" THEN b ELSE many0_group(b.rest, <<>>))

\* ParseResult
ParsedDoc(d) == [kind |-> "Doc", doc |-> d]
ParseErr(e) == [kind |-> e, doc |-> <<>>]

\* parse without all_consuming: the groups read so far are the result
parse_prefix(i) ==
    Bind(desktop_entry(i), LAMBDA r :
        IF r.kind # "Ok" THEN ParseErr(r.err) ELSE ParsedDoc(r.out))

\* parse: all_consuming(desktop_entry)(input).finish().map(|(_, e)| e)
parse(i) ==
    Bind(desktop_entry(i), LAMBDA r :
        IF r.kind # "Ok" THEN ParseErr(r.err)
        ELSE IF r.rest # <<>> THEN ParseErr("Syntax")
        ELSE ParsedDoc(r.out))

VARIABLES
    pc,               \* where the call is: idle, next, scan, item, done
    command,          \* parse_command's command: &str
    context,          \* parse_command's context: ExecContext
    inner,            \* CommandWords.inner: the characters not yet read
    result,           \* CommandWords::next local: the word being built
    escaping,         \* CommandWords::next local
    in_quotes,        \* CommandWords::next local
    item,             \* what the last words.next() returned
    words,            \* every item words.next() has returned so far
    bin,              \* parse_command local: the program name, once read
    cmd_args,         \* the arguments given to Command so far
    had_file_or_url,  \* parse_command local
    ret,              \* parse_command's return value
    called,           \* the entry point called, when it is not parse_command
    input,            \* the byte source: what reading it to the end gives
    parsed,           \* the ParseResult, or the panic the call ended in
    text,             \* the &str given to split_value_str or unescape_value
    vinner,           \* Values.inner: the characters not yet read
    collected,        \* the values Values::next has returned so far
    content,          \* unescape_value's return value
    launched          \* CommandExecutor::new's entry: &DesktopEntry

\* the state of parse_command and of its CommandWords
evars == <<command, context, inner, result, escaping, in_quotes, item,
           words, bin, cmd_args, had_file_or_url, ret>>
\* the state of a parser call
pvars == <<called, input, parsed>>

\* the state of a value codec call
cvars == <<text, vinner, collected, content>>

vars == <<pc, evars, pvars, cvars, launched>>

\* ---- the inputs drawn

\* characters the tokenizer tells apart, and one it does not
SplitAlphabet == {"a", " ", "\"", "\\"}
\* the pieces an argument with field codes is made of: every code
\* replace_append knows, some it does not, a '%' no character or a line
\* feed follows, and a plain character
CodeAtoms == { <<"%","f">>, <<"%","u">>, <<"%","i">>, <<"%","c">>,
               <<"%","k">>, <<"%","%">>, <<"%","F">>, <<"%","U">>,
               <<"%","a">>, <<"%","\n">>, <<"%">>, <<"a">>, <<"f">> }
\* whole words of a command with several arguments
CodeWords == {<<"%","F">>, <<"%","U">>, <<"%","f">>, <<"a">>}

RECURSIVE JoinWords(_)
\* the words joined by single spaces
JoinWords(ws) ==
    IF ws = <<>> THEN <<>>
    ELSE IF Len(ws) = 1 THEN ws[1]
    ELSE ws[1] \o <<" ">> \o JoinWords(Tail(ws))

Commands ==
    SeqsUpTo(SplitAlphabet, MaxLen)
    \cup { <<"a", " ">> \o Flatten(t) : t \in SeqsUpTo(CodeAtoms, MaxAtoms) }
    \cup { JoinWords(ws) : ws \in SeqsUpTo(CodeWords, MaxWords) }

\* the desktop entries a command is run for
FullEntry == << Group(DESKTOP_ENTRY_NAME,
                      (<<"n","a","m","e">> :> <<"N","\\","s","m">>)
                   @@ (<<"i","c","o","n">> :> <<"I">>)) >>
BareEntry == << Group(DESKTOP_ENTRY_NAME, <<>>) >>
OtherEntry == << Group(<<"X">>, (<<"i","c","o","n">> :> <<"J">>)) >>

Contexts ==
    { [source |-> FullEntry, source_path |-> Some(<<"P">>),
       args |-> << <<"x">>, <<"y">> >>],
      [source |-> FullEntry, source_path |-> None, args |-> <<>>],
      [source |-> BareEntry, source_path |-> Some(<<"P">>),
       args |-> << <<"x">> >>],
      [source |-> OtherEntry, source_path |-> None,
       args |-> << <<"x">> >>] }

\* ---- the entries launched

\* the characters of a raw Exec value: the ones the tokenizer tells apart
\* and a letter that names an escape
ExecAlphabet == {"a", "s", " ", "\"", "\\"}
ExecValues == SeqsUpTo(ExecAlphabet, MaxExecLen)

\* entries with an Exec line in the main group, and without
LaunchEntries ==
    { << Group(DESKTOP_ENTRY_NAME, (<<"e","x","e","c">> :> v)) >> :
        v \in ExecValues }
    \cup {BareEntry, OtherEntry}

\* ---- the strings given to the value codec

\* a plain character, the separator, the backslash, and the letters that
\* name an escape
TextAlphabet == {"a", ";", "\\", "s", "n", "t", "r"}
Texts == SeqsUpTo(TextAlphabet, MaxTextLen)

\* ---- the byte buffers drawn

\* whole lines of a desktop file, with and without their line feed: headers,
\* a header left open, entries (one key in two cases, one with a locale, one
\* whose value is no UTF-8), a comment, blank lines, a line that is no entry
FileLines ==
    { <<"[","g","]","\n">>,
      <<"[","h","]","\n">>,
      <<"[","g","]">>,
      <<"K","=","a","\n">>,
      <<"k","=","b","\n">>,
      <<"k","=","b">>,
      <<"k","[","e","n","_","U","S","]","=","c","\n">>,
      <<"#","c","\n">>,
      <<"\n">>,
      <<" ","\n">>,
      <<"x","\n">>,
      <<"k","=","<FF>","\n">>,
      <<"[","g","\n">> }

\* the bytes a drawn value is made of
ValueBytes == {" ", "\t", "v", "\\", "<C3>", "<A9>", "<FF>"}

\* one group with one entry, the value drawn byte by byte
ValueFiles ==
    { <<"[","g","]","\n","k">> \o sp \o <<"=">> \o v \o nl :
        sp \in {<<>>, <<" ">>},
        v \in SeqsUpTo(ValueBytes, MaxValueLen),
        nl \in {<<>>, <<"\n">>} }

Buffers ==
    { Flatten(ls) : ls \in SeqsUpTo(FileLines, MaxLines) } \cup ValueFiles

\* io::Read::read_to_end: the bytes, or an io::Error
ReadOk(b) == [ok |-> TRUE, bytes |-> b]
ReadFails == [ok |-> FALSE, bytes |-> <<>>]

NoResult == [kind |-> "pending", doc |-> <<>>]

NoReturn == [err |-> "pending", program |-> <<>>, args |-> <<>>]
OkCommand(p, a) == [err |-> "none", program |-> p, args |-> a]
ErrReturn(e) == [err |-> e, program |-> <<>>, args |-> <<>>]

Init ==
    /\ pc = "idle"
    /\ command = <<>>
    /\ context = [source |-> <<>>, source_path |-> None, args |-> <<>>]
    /\ inner = <<>>
    /\ result = <<>>
    /\ escaping = FALSE
    /\ in_quotes = FALSE
    /\ item = OkWord(<<>>)
    /\ words = <<>>
    /\ bin = None
    /\ cmd_args = <<>>
    /\ had_file_or_url = FALSE
    /\ ret = NoReturn
    /\ called = "none"
    /\ input = ReadOk(<<>>)
    /\ parsed = NoResult
    /\ text = <<>>
    /\ vinner = <<>>
    /\ collected = <<>>
    /\ content = <<>>
    /\ launched = <<>>

\* parse_command is called: split_command(command) makes the iterator
ParseCommandCall ==
    /\ pc = "idle"
    /\ \E c \in Commands, ctx \in Contexts :
          /\ command' = c
          /\ context' = ctx
          /\ inner' = c
    /\ pc' = "next"
    /\ UNCHANGED <<result, escaping, in_quotes, item, words, bin, cmd_args,
                   had_file_or_url, ret>>
    /\ UNCHANGED pvars
    /\ UNCHANGED cvars
    /\ UNCHANGED launched

\* CommandExecutor::new: entry.get::<Exec>(), NoCommand when there is none,
\* else parse_command(&exec_str, &ExecContext { source: entry, .. })
CommandExecutorNew ==
    /\ pc = "idle"
    /\ \E e \in LaunchEntries, a \in {<<>>, << <<"x">> >>},
          p \in {None, Some(<<"P">>)} :
          /\ launched' = e
          /\ IF entry_get_string(e, ExecField).some
             THEN /\ command' = entry_get_string(e, ExecField).val
                  /\ inner' = entry_get_string(e, ExecField).val
                  /\ context' = [source |-> e, source_path |-> p, args |-> a]
                  /\ pc' = "next"
                  /\ UNCHANGED ret
             ELSE /\ ret' = ErrReturn("NoCommand")
                  /\ pc' = "done"
                  /\ UNCHANGED <<command, inner, context>>
    /\ called' = "new"
    /\ UNCHANGED <<result, escaping, in_quotes, item, words, bin, cmd_args,
                   had_file_or_url>>
    /\ UNCHANGED <<input, parsed>>
    /\ UNCHANGED cvars

\* words.next() is called: None when nothing is left, which ends parse_command
\* (NoCommand when it was the call for the program name), else a new scan
NextWord ==
    /\ pc = "next"
    /\ IF inner = <<>>
       THEN /\ pc' = "done"
            /\ ret' = IF bin.some THEN OkCommand(bin.val, cmd_args)
                      ELSE ErrReturn("NoCommand")
            /\ UNCHANGED <<result, escaping, in_quotes>>
       ELSE /\ pc' = "scan"
            /\ result' = <<>>
            /\ escaping' = FALSE
            /\ in_quotes' = FALSE
            /\ UNCHANGED ret
    /\ UNCHANGED <<command, context, inner, item, words, bin, cmd_args,
                   had_file_or_url>>
    /\ UNCHANGED pvars
    /\ UNCHANGED cvars
    /\ UNCHANGED launched

\* the space arm without its guard
EndsWord_anySpace(c, inq) == c = " "

\* the match arm `' ' if !in_quotes`: the character ends the word
EndsWord(c, inq) == c = " " /\ ~inq

\* the backslash arm without its guard
TogglesEscape_anywhere(c, inq) == c = "\\"

\* the match arm `'\\' if self.in_quotes`
TogglesEscape(c, inq) == c = "\\" /\ inq

\* one turn of `while let Some(c) = self.inner.next()`
ScanChar ==
    /\ pc = "scan"
    /\ inner # <<>>
    /\ LET c == Head(inner) IN
       /\ inner' = Tail(inner)
       /\ CASE c = "\"" /\ ~escaping ->
                 /\ in_quotes' = ~in_quotes
                 /\ UNCHANGED <<result, escaping, item, words, pc>>
            [] TogglesEscape(c, in_quotes) ->
                 /\ result' = IF escaping THEN Append(result, "\\") ELSE result
                 /\ escaping' = ~escaping
                 /\ UNCHANGED <<in_quotes, item, words, pc>>
            [] EndsWord(c, in_quotes) ->
                 /\ item' = OkWord(result)
                 /\ words' = Append(words, OkWord(result))
                 /\ pc' = "item"
                 /\ UNCHANGED <<result, escaping, in_quotes>>
            [] OTHER ->
                 /\ result' = Append(result, c)
                 /\ escaping' = FALSE
                 /\ UNCHANGED <<in_quotes, item, words, pc>>
    /\ UNCHANGED <<command, context, bin, cmd_args, had_file_or_url, ret>>
    /\ UNCHANGED pvars
    /\ UNCHANGED cvars
    /\ UNCHANGED launched

\* the end of next() testing in_quotes before escaping
EndItem_quoteFirst(esc, inq, res) ==
    IF inq THEN ErrWord("IncompleteQuote")
    ELSE IF esc THEN ErrWord("IncompleteEscape")
    ELSE OkWord(res)

\* the item words.next() returns when the input ends inside a word
EndItem(esc, inq, res) ==
    IF esc THEN ErrWord("IncompleteEscape")
    ELSE IF inq THEN ErrWord("IncompleteQuote")
    ELSE OkWord(res)

\* the while loop ends: the input is used up
ScanEnd ==
    /\ pc = "scan"
    /\ inner = <<>>
    /\ item' = EndItem(escaping, in_quotes, result)
    /\ words' = Append(words, EndItem(escaping, in_quotes, result))
    /\ pc' = "item"
    /\ UNCHANGED <<command, context, inner, result, escaping, in_quotes, bin,
                   cmd_args, had_file_or_url, ret>>
    /\ UNCHANGED pvars
    /\ UNCHANGED cvars
    /\ UNCHANGED launched

\* what the body of `for arg in words` adds to the Command for one argument
ArgsFor(arg, ctx) ==
    IF IsFileArg(arg) THEN ctx.args ELSE <<replace_all(arg, ctx)>>

\* parse_command takes the item: the program name first, then one turn of
\* `for arg in words`
TakeItem ==
    /\ pc = "item"
    /\ IF item.err # "none"
       THEN /\ ret' = ErrReturn(item.err)
            /\ pc' = "done"
            /\ UNCHANGED <<bin, cmd_args, had_file_or_url>>
       ELSE IF ~bin.some
       THEN /\ bin' = Some(item.val)
            /\ pc' = "next"
            /\ UNCHANGED <<cmd_args, had_file_or_url, ret>>
       ELSE IF IsFileArg(item.val) /\ had_file_or_url
       THEN /\ ret' = ErrReturn("MultipleFileArgs")
            /\ pc' = "done"
            /\ UNCHANGED <<bin, cmd_args, had_file_or_url>>
       ELSE /\ cmd_args' = cmd_args \o ArgsFor(item.val, context)
            /\ had_file_or_url' = (had_file_or_url \/ IsFileArg(item.val))
            /\ pc' = "next"
            /\ UNCHANGED <<bin, ret>>
    /\ UNCHANGED <<command, context, inner, result, escaping, in_quotes, item,
                   words>>
    /\ UNCHANGED pvars
    /\ UNCHANGED cvars
    /\ UNCHANGED launched

\* parse is called on a byte buffer
ParseCall ==
    /\ pc = "idle"
    /\ \E b \in Buffers :
          /\ input' = ReadOk(b)
          /\ parsed' = parse(b)
    /\ called' = "parse"
    /\ pc' = "parsed"
    /\ UNCHANGED evars
    /\ UNCHANGED cvars
    /\ UNCHANGED launched

\* parse_io's result for what read_to_end gave: `?` on the read, the
\* println!'s from_utf8(..).unwrap(), then parse(buf)
parse_io(src) ==
    IF ~src.ok THEN ParseErr("IO")
    ELSE IF ~Utf8Valid(src.bytes) THEN ParseErr("Panic")
    ELSE parse(src.bytes)

\* parse_io is called on a byte source
ParseIoCall ==
    /\ pc = "idle"
    /\ \E src \in { ReadOk(b) : b \in Buffers } \cup {ReadFails} :
          /\ input' = src
          /\ parsed' = parse_io(src)
    /\ called' = "parse_io"
    /\ pc' = "parsed"
    /\ UNCHANGED evars
    /\ UNCHANGED cvars
    /\ UNCHANGED launched

\* util::split_value_str(s): the iterator over s.chars()
SplitValueStrCall ==
    /\ pc = "idle"
    /\ \E s \in Texts :
          /\ text' = s
          /\ vinner' = s
    /\ collected' = <<>>
    /\ called' = "split_value_str"
    /\ pc' = "values"
    /\ UNCHANGED <<content, input, parsed>>
    /\ UNCHANGED evars
    /\ UNCHANGED launched

\* Values::next is called: None when inner is empty, else the next value
ValuesNext ==
    /\ pc = "values"
    /\ IF vinner = <<>>
       THEN /\ pc' = "collected"
            /\ UNCHANGED <<vinner, collected>>
       ELSE /\ vinner' = values_scan(vinner, <<>>).rest
            /\ collected' = Append(collected, values_scan(vinner, <<>>).value)
            /\ UNCHANGED pc
    /\ UNCHANGED <<text, content>>
    /\ UNCHANGED <<evars, pvars>>
    /\ UNCHANGED launched

\* util::unescape_value(s) is called
UnescapeValueCall ==
    /\ pc = "idle"
    /\ \E s \in Texts :
          /\ text' = s
          /\ content' = unescape_value(s)
    /\ called' = "unescape_value"
    /\ pc' = "unescaped"
    /\ UNCHANGED <<vinner, collected, input, parsed>>
    /\ UNCHANGED evars
    /\ UNCHANGED launched

Next ==
    \/ ParseCommandCall
    \/ CommandExecutorNew
    \/ NextWord
    \/ ScanChar
    \/ ScanEnd
    \/ TakeItem
    \/ ParseCall
    \/ ParseIoCall
    \/ SplitValueStrCall
    \/ ValuesNext
    \/ UnescapeValueCall

Spec == Init /\ [][Next]_vars


\* ------------------------------------------------------------------------
\* Properties of the Exec interpreter
\* ------------------------------------------------------------------------

\* parse_command has returned a command
Returned == pc = "done" /\ ret.err = "none"

\* a token that is exactly %F or %U
FileToken(tok) == tok \in { <<"%","F">>, <<"%","U">> }

\* the words read so far, as strings
Tokens == [j \in 1..Len(words) |-> words[j].val]

RECURSIVE PairStart(_, _)
\* position i of s starts a two-character sequence %x, pairing from the left
\* without overlap ('%' before a line feed starts none: '.' excludes it)
PairStart(s, i) ==
    /\ i >= 1
    /\ i < Len(s)
    /\ s[i] = "%"
    /\ s[i+1] # "\n"
    /\ ~PairStart(s, i-1)

KnownCodes == {"f", "u", "i", "c", "k", "%"}

\* the decoded value of a key of the main group, empty when there is none
MainGroupText(doc, key) ==
    LET named == { g \in 1..Len(doc) : doc[g].name = DESKTOP_ENTRY_NAME }
        first == CHOOSE g \in named : \A h \in named : g <= h
    IN  IF named = {} THEN <<>>
        ELSE IF key \notin DOMAIN doc[first].values THEN <<>>
        ELSE unescape_value(doc[first].values[key])

\* what a recognized field code stands for
FieldCodeText(x, ctx) ==
    CASE x \in {"f", "u"} -> IF Len(ctx.args) = 0 THEN <<>> ELSE ctx.args[1]
      [] x = "i" -> MainGroupText(ctx.source, <<"i","c","o","n">>)
      [] x = "c" -> MainGroupText(ctx.source, <<"n","a","m","e">>)
      [] x = "k" -> IF ctx.source_path = None THEN <<>> ELSE ctx.source_path.val
      [] x = "%" -> <<"%">>

\* the argument a token stands for: every recognized %x replaced, every other
\* %x kept (unknownKept) or dropped, every other character kept
ArgumentOf(tok, ctx, unknownKept) ==
    Flatten([i \in 1..Len(tok) |->
        IF PairStart(tok, i)
        THEN IF tok[i+1] \in KnownCodes THEN FieldCodeText(tok[i+1], ctx)
             ELSE IF unknownKept THEN <<"%", tok[i+1]>> ELSE <<>>
        ELSE IF PairStart(tok, i-1) THEN <<>>
        ELSE <<tok[i]>>])

RECURSIVE ArgsBefore(_, _, _)
\* how many arguments the tokens 2..j-1 made, n being the caller's count
ArgsBefore(toks, j, n) ==
    IF j <= 2 THEN 0
    ELSE ArgsBefore(toks, j-1, n) + (IF FileToken(toks[j-1]) THEN n ELSE 1)

FieldCodesReplaced(unknownKept) ==
    Returned =>
        /\ ret.program = words[1].val
        /\ Len(ret.args) = ArgsBefore(Tokens, Len(words) + 1, Len(context.args))
        /\ \A j \in 2..Len(words) :
              ~FileToken(words[j].val) =>
                 ret.args[ArgsBefore(Tokens, j, Len(context.args)) + 1]
                    = ArgumentOf(words[j].val, context, unknownKept)

\* C1 as stated: in every token after the first that is not exactly %F or %U
\* each recognized field code is replaced by its value and all other
\* characters of the token, those of an unrecognized %x included, are kept;
\* the token yields exactly one argument at its original position.
C1_AsStated == FieldCodesReplaced(TRUE)

\* C1, amended: in every token after the first that is not exactly %F or %U
\* each recognized field code (%f, %u, %i, %c, %k, %%), read left to right
\* without overlap, is replaced by its value (the first caller argument, the
\* main group's decoded Icon or Name, the source path, a '%'; empty when
\* absent); every character outside a %x pair is kept, an unrecognized %x
\* pair is dropped, and the token yields exactly one argument, possibly
\* empty, at its original position. The first token is the program, as is.
C1_FieldCodesReplaced == FieldCodesReplaced(FALSE)

C1_Witness ==
    /\ Returned
    /\ Len(words) = 2
    /\ words[2].val = <<"%","i","%","c">>
    /\ ret.args = << <<"I","N"," ","m">> >>

\* every %x of the token is an unrecognized one, and there is one
OnlyUnknownCodes(tok) ==
    /\ \E i \in 1..Len(tok) : PairStart(tok, i)
    /\ \A i \in 1..Len(tok) : PairStart(tok, i) => tok[i+1] \notin KnownCodes

\* the token without its %x pairs
WithoutPairs(tok) ==
    Flatten([i \in 1..Len(tok) |->
        IF PairStart(tok, i) \/ PairStart(tok, i-1) THEN <<>> ELSE <<tok[i]>>])

\* C2 as stated: in a token that is not exactly %F or %U an unrecognized %x
\* is left untouched, so a token with no recognized code is its own argument.
C2_AsStated ==
    Returned =>
        \A j \in 2..Len(words) :
            (~FileToken(words[j].val) /\ OnlyUnknownCodes(words[j].val)) =>
                ret.args[ArgsBefore(Tokens, j, Len(context.args)) + 1]
                    = words[j].val

\* C2, amended: in a token that is not exactly %F or %U a two-character
\* sequence %x whose x is not one of f, u, i, c, k, % is removed, both
\* characters (also %F or %U inside a longer token); only a '%' followed by
\* a line feed, or ending the token, stays as it is.
C2_UnknownCodesRemoved ==
    Returned =>
        \A j \in 2..Len(words) :
            (~FileToken(words[j].val) /\ OnlyUnknownCodes(words[j].val)) =>
                ret.args[ArgsBefore(Tokens, j, Len(context.args)) + 1]
                    = WithoutPairs(words[j].val)

C2_Witness ==
    /\ Returned
    /\ Len(words) = 2
    /\ words[2].val = <<"a","%","F">>
    /\ ret.args = << <<"a">> >>

\* ---- the words of a command, read off the command itself

\* an even number of double quotes precedes position i
OutsideQuotes(s, i) == Cardinality({ q \in 1..(i-1) : s[q] = "\"" }) % 2 = 0

\* the spaces of s that are not inside a quoted span
SplitPoints(s) == { i \in 1..Len(s) : s[i] = " " /\ OutsideQuotes(s, i) }

RECURSIVE SegmentsFrom(_, _)
\* the stretches of s from position from on, between its split points
SegmentsFrom(s, from) ==
    LET later == { p \in SplitPoints(s) : p >= from }
        p == CHOOSE x \in later : \A y \in later : x <= y
    IN  IF later = {} THEN << SubSeq(s, from, Len(s)) >>
        ELSE << SubSeq(s, from, p - 1) >> \o SegmentsFrom(s, p + 1)

\* a stretch without its double quotes
Unquoted(seg) == Flatten([i \in 1..Len(seg) |->
                    IF seg[i] = "\"" THEN <<>> ELSE <<seg[i]>>])

\* the words of s: its stretches, but for an empty last one
SegmentWords(s) ==
    LET segs == SegmentsFrom(s, 1)
        kept == IF segs[Len(segs)] = <<>>
                THEN SubSeq(segs, 1, Len(segs) - 1) ELSE segs
    IN  [j \in 1..Len(kept) |-> Unquoted(kept[j])]

Has(s, c) == \E i \in 1..Len(s) : s[i] = c

\* C3: among the tokens after the program name the first one exactly %F or
\* %U is replaced by the caller's whole argument list, in order, at that
\* position; a second one (any mix, also with an empty list) makes the call
\* return MultipleFileArgs and no command.
C3_FileArgsOnce ==
    (pc = "done" /\ ~Has(command, "\"") /\ command # <<>>) =>
        LET toks == Tail(SegmentWords(command))
            files == { j \in 1..Len(toks) : FileToken(toks[j]) }
            n == Len(context.args)
        IN  /\ Cardinality(files) >= 2 => ret = ErrReturn("MultipleFileArgs")
            /\ Cardinality(files) <= 1 => ret.err = "none"
            /\ Cardinality(files) = 1 =>
                  LET p == CHOOSE j \in files : TRUE
                  IN  /\ Len(ret.args) = Len(toks) - 1 + n
                      /\ SubSeq(ret.args, p, p + n - 1) = context.args
            /\ Cardinality(files) = 0 => Len(ret.args) = Len(toks)

C3_Witness ==
    /\ Returned
    /\ command = <<"a"," ","%","U"," ","a">>
    /\ ret.args = << <<"x">>, <<"y">>, <<"a">> >>

\* C4: the last word is IncompleteEscape when the input ends while escaping,
\* IncompleteQuote when it ends in_quotes and not escaping, a word otherwise;
\* an error is only ever the last item, nothing is left to read after it,
\* and parse_command returns it with no command.
C4_ErrorsAtEnd ==
    /\ \A j \in 1..(Len(words) - 1) : words[j].err = "none"
    /\ pc = "item" => item = words[Len(words)]
    /\ (pc = "item" /\ inner # <<>>) => item.err = "none"
    /\ (pc = "item" /\ inner = <<>>) =>
          item = IF escaping THEN ErrWord("IncompleteEscape")
                 ELSE IF in_quotes THEN ErrWord("IncompleteQuote")
                 ELSE OkWord(result)
    /\ (pc = "done" /\ words # <<>> /\ words[Len(words)].err # "none") =>
          /\ inner = <<>>
          /\ ret = ErrReturn(words[Len(words)].err)
    /\ (pc = "done" /\ ret.err = "IncompleteEscape") =>
          /\ escaping
          /\ command[Len(command)] = "\\"
    /\ (pc = "done" /\ ret.err = "IncompleteQuote") =>
          /\ in_quotes /\ ~escaping
          /\ Has(command, "\"")

C4_Witness ==
    /\ pc = "done"
    /\ ret = ErrReturn("IncompleteEscape")
    /\ Len(words) = 2
    /\ command = <<"a"," ","\"","\\">>

\* the items are the Ok items of exactly these words
ReadAll(ws) ==
    /\ Len(words) = Len(ws)
    /\ \A j \in 1..Len(ws) : words[j] = OkWord(ws[j])

\* C5: every space outside quotes ends the word and starts a new one: with
\* no double quote in the input the words are the segments between spaces
\* (k adjacent spaces make k-1 empty words, a leading space an empty first
\* word), a space inside a quoted span does not split, only an empty segment
\* after a final space is not a word, and the empty input has no word and
\* makes parse_command return NoCommand.
C5_SplitOnEverySpace ==
    pc = "done" =>
        /\ (command = <<>>) <=> (ret = ErrReturn("NoCommand"))
        /\ command = <<>> => words = <<>>
        /\ ( /\ ret.err # "MultipleFileArgs"
             /\ \/ ~Has(command, "\"")
                \/ /\ ~Has(command, "\\")
                   /\ OutsideQuotes(command, Len(command) + 1) )
           => ReadAll(SegmentWords(command))

C5_Witness ==
    /\ Returned
    /\ command = <<" ","a"," "," ","a">>
    /\ Tokens = << <<>>, <<"a">>, <<>>, <<"a">> >>

\* ------------------------------------------------------------------------
\* Properties of the parser, stated on the buffer read line by line
\* ------------------------------------------------------------------------

\* parse has returned
Parsed == pc = "parsed" /\ called = "parse"

RECURSIVE LinesOf(_)
\* the lines of b without their line feeds; the last is what follows the
\* last line feed, empty when b ends with one
LinesOf(b) ==
    LET n == RunUntil(b, "\n")
    IN  IF n = Len(b) THEN <<b>>
        ELSE <<SubSeq(b, 1, n)>> \o LinesOf(Drop(b, n + 1))

Blank == {" ", "\t"}
BlankLine(l) == \A j \in 1..Len(l) : l[j] \in Blank
CommentLine(l) == l # <<>> /\ l[1] = "#"
HeaderLine(l) ==
    /\ Len(l) >= 2
    /\ l[1] = "["
    /\ l[Len(l)] = "]"
    /\ \A j \in 2..(Len(l) - 1) : l[j] \in PrintableAscii \ {"[", "]"}

\* a key name, alone or with a locale [ll] or [ll_CC]
PlainKey(k) == k # <<>> /\ \A j \in 1..Len(k) : k[j] \in KeyChars
LocaleSuffix(x) ==
    \/ /\ Len(x) = 4
       /\ x[1] = "[" /\ x[2] \in Lowers /\ x[3] \in Lowers /\ x[4] = "]"
    \/ /\ Len(x) = 7
       /\ x[1] = "[" /\ x[2] \in Lowers /\ x[3] \in Lowers /\ x[4] = "_"
       /\ x[5] \in Uppers /\ x[6] \in Uppers /\ x[7] = "]"
KeyText(k) ==
    \/ PlainKey(k)
    \/ \E n \in 1..Len(k) :
          PlainKey(SubSeq(k, 1, n)) /\ LocaleSuffix(Drop(k, n))

\* where the first '=' of the line is, 0 when it has none
EqualsAt(l) == IF Has(l, "=") THEN RunUntil(l, "=") + 1 ELSE 0

RECURSIVE WithoutBlankEnd(_)
WithoutBlankEnd(x) ==
    IF x # <<>> /\ x[Len(x)] \in Blank
    THEN WithoutBlankEnd(SubSeq(x, 1, Len(x) - 1)) ELSE x

\* the key of an entry line as written, and the bytes after its '='
WrittenKey(l) == WithoutBlankEnd(SubSeq(l, 1, EqualsAt(l) - 1))
AfterEquals(l) == Drop(l, EqualsAt(l))
WithoutBlankStart(x) == Drop(x, RunIn(x, Blank))

EntryLine(l) == EqualsAt(l) > 0 /\ KeyText(WrittenKey(l))

RECURSIVE Verdict(_, _, _)
\* what the grammar `blanks group*` makes of the lines from the j-th on:
\* "Doc" when they all fit, "NonUtf8" when the first line that does not is
\* an entry of a group whose value is no UTF-8, "Syntax" otherwise
Verdict(ls, j, inGroup) ==
    IF j > Len(ls) THEN "Doc"
    ELSE IF j = Len(ls) /\ ls[j] = <<>> THEN "Doc"
    ELSE IF CommentLine(ls[j]) THEN Verdict(ls, j + 1, inGroup)
    ELSE IF BlankLine(ls[j])
         THEN IF j = Len(ls) THEN "Syntax" ELSE Verdict(ls, j + 1, inGroup)
    ELSE IF HeaderLine(ls[j])
         THEN IF j = Len(ls) THEN "Syntax" ELSE Verdict(ls, j + 1, TRUE)
    ELSE IF EntryLine(ls[j]) /\ inGroup
         THEN IF Utf8Valid(AfterEquals(ls[j]))
              THEN Verdict(ls, j + 1, inGroup) ELSE "NonUtf8"
    ELSE "Syntax"

FileVerdict(b) == Verdict(LinesOf(b), 1, FALSE)

\* the lines of b that are group headers
HeaderLines(b) ==
    { j \in 1..Len(LinesOf(b)) : HeaderLine(LinesOf(b)[j]) }

\* C6: parse returns a Document only when the whole buffer matches
\* `blanks group*`; when bytes are left over after the groups (garbage, an
\* entry before the first group, a line that is no entry, a header without
\* its line feed) the result is Syntax, and never a Document of the groups
\* read so far. (A group is what the group parser takes: a header, its line
\* feed, entries and blanks.)
C6_WholeBufferOrSyntax ==
    Parsed =>
        /\ (parsed.kind = "Doc") <=> (FileVerdict(input.bytes) = "Doc")
        /\ FileVerdict(input.bytes) = "Syntax" => parsed = ParseErr("Syntax")
        /\ parsed.kind = "Doc" =>
              Len(parsed.doc) = Cardinality(HeaderLines(input.bytes))

C6_Witness ==
    /\ Parsed
    /\ input.bytes = <<"[","g","]","\n","x","\n","[","h","]","\n">>
    /\ parsed = ParseErr("Syntax")

\* C7: when the input fits the grammar up to and including a key and its
\* '=' inside a group and that value line is no valid UTF-8, parse returns
\* NonUtf8, whatever follows the line; NonUtf8 is returned in no other case.
C7_NonUtf8NotSwallowed ==
    Parsed =>
        ((FileVerdict(input.bytes) = "NonUtf8") <=> (parsed = ParseErr("NonUtf8")))

C7_Witness ==
    /\ Parsed
    /\ input.bytes = <<"[","g","]","\n","k","=","<FF>","\n","x","\n">>
    /\ parsed = ParseErr("NonUtf8")

\* C8: parse_io returns a Document or one of the errors Syntax, NonUtf8, IO
\* for every byte source; it never panics.
C8_ParseIoReturns ==
    (pc = "parsed" /\ called = "parse_io") =>
        parsed.kind \in {"Doc", "Syntax", "NonUtf8", "IO"}

\* every value the document stores
StoredValues(doc) ==
    UNION { { doc[g].values[k] : k \in DOMAIN doc[g].values } :
            g \in 1..Len(doc) }

\* the buffer has one '=' and the document one stored value: one entry line
OneEntry ==
    /\ Parsed
    /\ parsed.kind = "Doc"
    /\ Cardinality({ j \in 1..Len(input.bytes) : input.bytes[j] = "=" }) = 1
    /\ StoredValues(parsed.doc) # {}

\* the bytes of the buffer after its '=' up to the end of that line
ValueAsWritten ==
    LET after == Drop(input.bytes, RunUntil(input.bytes, "="))
    IN  SubSeq(after, 2, RunUntil(after, "\n"))

\* C9 as stated: the stored value is the text after the '=' of its line with
\* only the line end removed, leading spaces and tabs included.
C9_AsStated ==
    OneEntry => StoredValues(parsed.doc) = { Utf8Decode(ValueAsWritten) }

\* C9, amended: the stored value is the text after the '=' of its line
\* without the spaces and tabs that directly follow the '=' and without the
\* line feed; every later character (trailing spaces and tabs, backslash
\* escapes) is kept unchanged.
C9_ValueKeptButLeadingBlanks ==
    OneEntry =>
        StoredValues(parsed.doc)
            = { Utf8Decode(WithoutBlankStart(ValueAsWritten)) }

C9_Witness ==
    /\ OneEntry
    /\ input.bytes = <<"[","g","]","\n","k","="," ","\\","\t","\n">>
    /\ parsed.doc[1].values[<<"k">>] = <<"\\","\t">>

\* the j-th header line of b
HeaderAt(b, g) ==
    CHOOSE j \in HeaderLines(b) :
        Cardinality({ h \in HeaderLines(b) : h < j }) = g - 1

\* the entry lines of the g-th group of b
EntryLinesOf(b, g) ==
    { j \in 1..Len(LinesOf(b)) :
        /\ j > HeaderAt(b, g)
        /\ g < Cardinality(HeaderLines(b)) => j < HeaderAt(b, g + 1)
        /\ ~CommentLine(LinesOf(b)[j])
        /\ EntryLine(LinesOf(b)[j]) }

SameKey(a, b) == to_ascii_lowercase(a) = to_ascii_lowercase(b)

\* u8::to_ascii_uppercase, for names asked in upper case
AsciiUpperChar(c) ==
    IF \E n \in 1..26 : LowerLetters[n] = c
    THEN UpperLetters[CHOOSE n \in 1..26 : LowerLetters[n] = c]
    ELSE c
UpperCased(x) == [j \in 1..Len(x) |-> AsciiUpperChar(x[j])]

\* C10: in every parsed group no stored key holds an upper-case ASCII
\* letter, there is one stored key for all lines whose keys are equal
\* ignoring ASCII case, its value is that of the last such line, and get_raw
\* returns that value for the name in any letter case.
C10_KeysFoldedLastWins ==
    (Parsed /\ parsed.kind = "Doc") =>
        \A g \in 1..Len(parsed.doc) :
            LET ls == LinesOf(input.bytes)
                es == EntryLinesOf(input.bytes, g)
                vs == parsed.doc[g].values
            IN  /\ \A k \in DOMAIN vs :
                      /\ \A n \in 1..Len(k) : k[n] \notin Uppers
                      /\ \E j \in es : SameKey(WrittenKey(ls[j]), k)
                /\ \A j \in es :
                      LET last == CHOOSE m \in es :
                                    /\ SameKey(WrittenKey(ls[m]), WrittenKey(ls[j]))
                                    /\ \A o \in es :
                                          SameKey(WrittenKey(ls[o]), WrittenKey(ls[j]))
                                             => o <= m
                          want == Some(Utf8Decode(WithoutBlankStart(AfterEquals(ls[last]))))
                      IN  /\ Cardinality({ k \in DOMAIN vs : SameKey(k, WrittenKey(ls[j])) }) = 1
                          /\ get_raw(parsed.doc[g], WrittenKey(ls[j])) = want
                          /\ get_raw(parsed.doc[g], UpperCased(WrittenKey(ls[j]))) = want

C10_Witness ==
    /\ Parsed
    /\ input.bytes = <<"[","g","]","\n","K","=","a","\n","k","=","b","\n">>
    /\ parsed = ParsedDoc(<< Group(<<"g">>, (<<"k">> :> <<"b">>)) >>)

\* ------------------------------------------------------------------------
\* Properties of the value codec, stated on the positions of the string
\* ------------------------------------------------------------------------

RECURSIVE Consumed(_, _)
\* the i-th character of s is taken by the backslash before it: that one is
\* a backslash and is not itself taken
Consumed(s, i) == i > 1 /\ s[i - 1] = "\\" /\ ~Consumed(s, i - 1)

\* what a backslash and the character e after it stand for; `\;` is a
\* semicolon in a list and stays as it is elsewhere
EscapeText(e, inList) ==
    CASE e = "s"  -> <<" ">>
      [] e = "n"  -> <<"\n">>
      [] e = "t"  -> <<"\t">>
      [] e = "r"  -> <<"\r">>
      [] e = "\\" -> <<"\\">>
      [] e = ";" /\ inList -> <<";">>
      [] OTHER    -> <<"\\", e>>

\* s with its escapes resolved, position by position
Resolved(s, inList) ==
    Flatten([i \in 1..Len(s) |->
        IF Consumed(s, i) THEN <<>>
        ELSE IF s[i] # "\\" THEN <<s[i]>>
        ELSE IF i = Len(s) THEN <<"\\">>
        ELSE EscapeText(s[i + 1], inList)])

\* the positions of the ';' of s that separate
Separators(s) == { i \in 1..Len(s) : s[i] = ";" /\ ~Consumed(s, i) }

\* the position of the k-th separator; 0 before the first, Len(s) + 1 after
\* the last
SeparatorAt(s, k) ==
    IF k = 0 THEN 0
    ELSE IF k > Cardinality(Separators(s)) THEN Len(s) + 1
    ELSE CHOOSE i \in Separators(s) :
             Cardinality({ j \in Separators(s) : j < i }) = k - 1

\* the k-th segment of s: what stands between two separators
Segment(s, k) ==
    SubSeq(s, SeparatorAt(s, k - 1) + 1, SeparatorAt(s, k) - 1)

\* the elements of the list s: one per separator, and the text after the last
\* separator when there is some
Elements(s) ==
    LET n == Cardinality(Separators(s))
        m == IF Segment(s, n + 1) = <<>> THEN n ELSE n + 1
    IN  [k \in 1..m |-> Resolved(Segment(s, k), TRUE)]

\* the iterator of split_value_str has returned None
Collected == pc = "collected" /\ called = "split_value_str"

\* C11: the elements split_value_str yields are the segments between the
\* unescaped ';' in order, a ';' after an unconsumed backslash being a
\* literal semicolon; an empty segment after the last unescaped ';' is not
\* emitted, the empty string gives no element, ";" gives one empty element,
\* and s + ";" gives the one element s when s has no backslash and no ';'.
C11_SplitOnUnescapedSemicolons ==
    /\ (pc = "values" /\ called = "split_value_str") =>
          /\ Len(collected) <= Len(Elements(text))
          /\ collected = SubSeq(Elements(text), 1, Len(collected))
    /\ Collected =>
          /\ collected = Elements(text)
          /\ text = <<>> => collected = <<>>
          /\ text = <<";">> => collected = << <<>> >>
          /\ LET s == SubSeq(text, 1, Len(text) - 1)
             IN  (text = s \o <<";">> /\ ~Has(s, "\\") /\ ~Has(s, ";"))
                     => collected = <<s>>

C11_Witness ==
    /\ Collected
    /\ text = <<"a", "\\", ";", ";">>
    /\ collected = << <<"a", ";">> >>

\* unescape_value has returned
Unescaped == pc = "unescaped" /\ called = "unescape_value"

\* C12: unescape_value returns for every string; read left to right, a
\* backslash followed by s, n, t, r or a backslash becomes a space, a line
\* feed, a tab, a carriage return or one backslash, a backslash followed by
\* any other character (';' included) stays with that character, a backslash
\* ending the string stays, and every other character is copied: a string
\* without backslashes is returned as it is.
C12_UnescapeTotalAndLenient ==
    Unescaped =>
        /\ content = Resolved(text, FALSE)
        /\ ~Has(text, "\\") => content = text
        /\ (text # <<>> /\ text[Len(text)] = "\\" /\ ~Consumed(text, Len(text)))
              => (content # <<>> /\ content[Len(content)] = "\\")
        /\ text = <<"\\", ";">> => content = <<"\\", ";">>
        /\ text = <<"\\", "\\">> => content = <<"\\">>

C12_Witness ==
    /\ Unescaped
    /\ text = <<"\\", "s", "\\", ";">>
    /\ content = <<" ", "\\", ";">>

\* ------------------------------------------------------------------------
\* Properties of the launch path
\* ------------------------------------------------------------------------

\* CommandExecutor::new was called and has gone past its first statement
Launched == called = "new" /\ pc # "idle"

\* the Exec value of the launched entry as the parser stored it
RawExec ==
    IF main_group(launched).some
    THEN get_raw(main_group(launched).val, ExecField)
    ELSE None

\* C13 as stated: the tokenizer is given the Exec value as stored, backslash
\* sequences included.
C13_AsStated ==
    (Launched /\ RawExec.some) => command = RawExec.val

\* C13, amended: the tokenizer is given the Exec value of the main group
\* decoded by unescape_value (`\s` reaches it as a space, `\\` as one
\* backslash); without a main group or an Exec line the call returns
\* NoCommand and nothing is tokenized.
C13_ExecDecodedBeforeTokenizing ==
    Launched =>
        /\ RawExec.some =>
              /\ command = Resolved(RawExec.val, FALSE)
              /\ context.source = launched
              /\ Len(inner) <= Len(command)
              /\ inner = SubSeq(command, Len(command) - Len(inner) + 1,
                                Len(command))
        /\ ~RawExec.some =>
              /\ pc = "done"
              /\ ret = ErrReturn("NoCommand")
              /\ words = <<>>

C13_Witness ==
    /\ Launched
    /\ pc = "done"
    /\ RawExec = Some(<<"a", "\\", "s">>)
    /\ command = <<"a", " ">>
    /\ ret = OkCommand(<<"a">>, <<>>)

\* ------------------------------------------------------------------------
\* Properties of the tokenizer's flags
\* ------------------------------------------------------------------------

\* the character the scan has read last, "" before the first
LastRead ==
    IF Len(command) > Len(inner)
    THEN command[Len(command) - Len(inner)] ELSE ""

\* C14: at every step of split_command escaping holds only while in_quotes
\* holds, and both are false when a word has been returned; so a backslash
\* read outside quotes is appended to the word as it is, and a command
\* without a double quote never gives IncompleteEscape or IncompleteQuote:
\* its words are its stretches between spaces, backslashes kept.
C14_EscapingOnlyInQuotes ==
    /\ escaping => in_quotes
    /\ (pc = "item" /\ item.err = "none") => (~escaping /\ ~in_quotes)
    /\ (pc = "scan" /\ ~in_quotes /\ LastRead = "\\") =>
          (result # <<>> /\ result[Len(result)] = "\\")
    /\ ~Has(command, "\"") =>
          /\ ret.err \notin {"IncompleteEscape", "IncompleteQuote"}
          /\ Len(words) <= Len(SegmentWords(command))
          /\ \A j \in 1..Len(words) :
                words[j] = OkWord(SegmentWords(command)[j])

C14_Witness ==
    /\ pc = "done"
    /\ command = <<"a", "\\", " ", "\\">>
    /\ ret = OkCommand(<<"a", "\\">>, << <<"\\">> >>)

====
